---- MODULE Spec2Model ----
(***************************************************************************)
(* Model of packages/ckeditor5-typing/src/inputcommand.js: the InputCommand *)
(* of the typing feature, together with the collaborators it drives (the    *)
(* ChangeBuffer, the document's change scope, batches and selection).       *)
(*                                                                          *)
(* The document is a flat sequence of characters; a position is an offset   *)
(* 0..Len(doc) and a range a record [start, end].  A batch handle is an     *)
(* integer; a fresh batch is an integer never handed out before.            *)
(***************************************************************************)
EXTENDS Integers, Sequences, FiniteSets, TLC

\* ---------------------------------------------------------------- bounds
MaxDoc == 4
MaxText == 2
MaxCalls == 2
MaxLimit == 2

Letters == <<"a", "b", "c", "d">>
InitialDocs == {<<"x">>}

NoPosition == 0 - 1
NoRange == [start |-> NoPosition, end |-> NoPosition]
NoText == <<"<omitted>">>
NULL == "null"
TheBuffer == "ChangeBuffer#1"
FirstBatch == 1

\* doc          the document content (editor.document)
\* selection    the first range of the document selection
\* buffer       this._buffer: the ChangeBuffer of the command, or null
\* changeBuffer the state of that ChangeBuffer: batch, size (units since the
\*              last split), limit (the split threshold), destroyed
\* teardown     the statements of destroy() completed so far, each in the
\*              place of its first completion
\* thrown       the error that left the last operation, or "none"
\* calls        the number of execute calls made
\* total        the units inserted by the completed calls (see Cumulative)
\* written      the batch last written to and the text units recorded into it
\* typing       while every call so far took its range from the selection and
\*              gave no result position: where the selection was at first,
\*              the document then, and the texts of the calls in call order
\* last         the record of the observed execute call (see Execute)
VARIABLES doc, selection, buffer, changeBuffer, teardown, thrown,
          calls, total, written, typing, last

vars == <<doc, selection, buffer, changeBuffer, teardown, thrown,
          calls, total, written, typing, last>>

\* ------------------------------------------------------- helper operators
\* The thresholds tried: a negative one, zero and the positive ones.
Limits == (0 - 1)..MaxLimit

\* One text of every length up to MaxText, each length in its own letter.
TextOfLength(n) == [i \in 1..n |-> Letters[IF n < Len(Letters) THEN n ELSE Len(Letters)]]

Texts == {TextOfLength(n) : n \in 0..MaxText}

\* The result position tried: the start of the document.
ResultPositions(newLen) == {0}

\* The ranges inside a document.
RangesOf(d) == {r \in [start : 0..Len(d), end : 0..Len(d)] : r.start <= r.end}

\* Ranges that reach past the end of the document: a collapsed one and a
\* non-collapsed one.
RangesOutside(d) == {[start |-> Len(d) + 1, end |-> Len(d) + 1],
                     [start |-> 0, end |-> Len(d) + 1]}

IsCollapsed(r) == r.start = r.end

\* The document model accepts a range or position only inside the document.
IsInside(d, r) == 0 <= r.start /\ r.start <= r.end /\ r.end <= Len(d)

\* ------------------------------------------- document model (collaborator)
\* batch.remove( range ): the content of the range disappears.
RemoveContent(d, r) == SubSeq(d, 1, r.start) \o SubSeq(d, r.end + 1, Len(d))

\* batch.weakInsert( position, text ): the text appears at the position.
InsertContent(d, p, t) == SubSeq(d, 1, p) \o t \o SubSeq(d, p + 1, Len(d))

\* The selection is live: a removal pulls its boundaries out of the removed
\* content, an insertion pushes the boundaries that lie after it.
PositionAfterRemove(q, r) ==
    IF q <= r.start THEN q
    ELSE IF q <= r.end THEN r.start
    ELSE q - (r.end - r.start)

PositionAfterInsert(q, p, n) == IF q <= p THEN q ELSE q + n

SelectionAfterRemove(s, r) ==
    [start |-> PositionAfterRemove(s.start, r), end |-> PositionAfterRemove(s.end, r)]

SelectionAfterInsert(s, p, n) ==
    [start |-> PositionAfterInsert(s.start, p, n), end |-> PositionAfterInsert(s.end, p, n)]

\* selection.collapse( position )
Collapse(p) == [start |-> p, end |-> p]

\* position.getShiftedBy( n )
GetShiftedBy(p, n) == p + n

\* ------------------------------------------------ ChangeBuffer (collaborator)
\* new ChangeBuffer( document, undoStepSize ): Open( firstBatch, 0 ).
NewChangeBuffer(undoStepSize) ==
    [batch |-> FirstBatch, size |-> 0, limit |-> undoStepSize, destroyed |-> FALSE]

\* buffer.batch: the batch of the current Open state, a pure query.
BufferBatch(cb) == cb.batch

\* buffer.input( n ): add n; at or over the threshold (or with a non-positive
\* threshold) close the batch and open a fresh one with a zero counter.
BufferInput(cb, n) ==
    LET units == cb.size + n
    IN  IF cb.limit <= 0 \/ units >= cb.limit
        THEN [cb EXCEPT !.batch = cb.batch + 1, !.size = 0]
        ELSE [cb EXCEPT !.size = units]

\* buffer.destroy(): the buffer lets go of its batch.
BufferDestroy(cb) == [cb EXCEPT !.destroyed = TRUE]

\* ----------------------------------------------------------- InputCommand
\* constructor( editor, undoStepSize ): the command owns one ChangeBuffer.
Constructor(undoStepSize) ==
    [buffer |-> TheBuffer, changeBuffer |-> NewChangeBuffer(undoStepSize)]

\* get buffer()
Buffer(ref) == ref

\* const text = options.text || '';
DefaultText(t) == IF t = NoText \/ t = <<>> THEN <<>> ELSE t

\* Variants of textInsertions that miscount by one.
TextInsertionsPlusOne(text) == Len(text) + 1

TextInsertionsMinusOne(text) == Len(text) - 1

\* Variant that counts a text as one unit however long it is.
TextInsertionsPerCall(text) == IF Len(text) > 1 THEN 1 ELSE Len(text)

\* const textInsertions = text.length;
TextInsertions(text) == Len(text)

\* Variant that defaults to the start of the document.
TargetRangeAtStart(r, sel) == IF r = NoRange THEN [start |-> 0, end |-> 0] ELSE r

\* const range = options.range || doc.selection.getFirstRange();
TargetRange(r, sel) == IF r = NoRange THEN sel ELSE r

\* Variant that forgets the shift.
ShiftedStartUnshifted(range, textInsertions) == range.start

\* range.start.getShiftedBy( textInsertions )
ShiftedStart(range, textInsertions) == GetShiftedBy(range.start, textInsertions)

\* Variant that reports to the buffer between the remove and the insert.
CallbackInputBeforeInsert(range, resultPosition) ==
    LET isCollapsedRange == IsCollapsed(range)
    IN  (IF ~isCollapsedRange THEN <<"remove">> ELSE <<>>)
        \o <<"input", "weakInsert">>
        \o (IF resultPosition # NoPosition THEN <<"collapseResult">>
            ELSE IF isCollapsedRange THEN <<"collapseShifted">>
            ELSE <<>>)

\* Variant that tests the collapsed range before the result position.
CallbackShiftFirst(range, resultPosition) ==
    LET isCollapsedRange == IsCollapsed(range)
    IN  (IF ~isCollapsedRange THEN <<"remove">> ELSE <<>>)
        \o <<"weakInsert">>
        \o (IF isCollapsedRange THEN <<"collapseShifted">>
            ELSE IF resultPosition # NoPosition THEN <<"collapseResult">>
            ELSE <<>>)
        \o <<"input">>

\* Variant that reports to the buffer before the selection is placed.
CallbackInputBeforeCollapse(range, resultPosition) ==
    LET isCollapsedRange == IsCollapsed(range)
    IN  (IF ~isCollapsedRange THEN <<"remove">> ELSE <<>>)
        \o <<"weakInsert", "input">>
        \o (IF resultPosition # NoPosition THEN <<"collapseResult">>
            ELSE IF isCollapsedRange THEN <<"collapseShifted">>
            ELSE <<>>)

\* Variant that places the selection after the text in every case.
CallbackAlwaysCollapse(range, resultPosition) ==
    LET isCollapsedRange == IsCollapsed(range)
    IN  (IF ~isCollapsedRange THEN <<"remove">> ELSE <<>>)
        \o <<"weakInsert">>
        \o (IF resultPosition # NoPosition THEN <<"collapseResult">>
            ELSE <<"collapseShifted">>)
        \o <<"input">>

\* Variant that reports to the buffer before it changes the document.
CallbackInputFirst(range, resultPosition) ==
    LET isCollapsedRange == IsCollapsed(range)
    IN  <<"input">>
        \o (IF ~isCollapsedRange THEN <<"remove">> ELSE <<>>)
        \o <<"weakInsert">>
        \o (IF resultPosition # NoPosition THEN <<"collapseResult">>
            ELSE IF isCollapsedRange THEN <<"collapseShifted">>
            ELSE <<>>)

\* Variant that never reports to the buffer.
CallbackWithoutInput(range, resultPosition) ==
    LET isCollapsedRange == IsCollapsed(range)
    IN  (IF ~isCollapsedRange THEN <<"remove">> ELSE <<>>)
        \o <<"weakInsert">>
        \o (IF resultPosition # NoPosition THEN <<"collapseResult">>
            ELSE IF isCollapsedRange THEN <<"collapseShifted">>
            ELSE <<>>)

\* The procedure handed to doc.enqueueChanges, as the sequence of calls it
\* makes for the given range and result position.
Callback(range, resultPosition) ==
    LET isCollapsedRange == IsCollapsed(range)
    IN  (IF ~isCollapsedRange THEN <<"remove">> ELSE <<>>)
        \o <<"weakInsert">>
        \o (IF resultPosition # NoPosition THEN <<"collapseResult">>
            ELSE IF isCollapsedRange THEN <<"collapseShifted">>
            ELSE <<>>)
        \o <<"input">>

\* Variant that removes in one change scope and inserts in a second one.
DoExecuteScopesSplit(range, resultPosition) ==
    IF IsCollapsed(range) THEN << Callback(range, resultPosition) >>
    ELSE << <<"remove">>, Tail(Callback(range, resultPosition)) >>

\* Variant that reports to the buffer in a change scope of its own.
DoExecuteScopesInputApart(range, resultPosition) ==
    LET steps == Callback(range, resultPosition)
    IN  << SubSeq(steps, 1, Len(steps) - 1), <<"input">> >>

\* The procedures _doExecute hands to doc.enqueueChanges, in order.
DoExecuteScopes(range, resultPosition) == << Callback(range, resultPosition) >>

\* A recorded structural mutation of a batch.
Operation(kind, b, n) == [op |-> kind, batch |-> b, units |-> n]

\* The units of text recorded so far into the batch most recently written to.
Record(w, b, n) ==
    IF w.batch = b THEN [w EXCEPT !.units = @ + n] ELSE [batch |-> b, units |-> n]

\* One call of the procedure.  m is the editor state while the procedure
\* runs, c the values captured by _doExecute before it was enqueued.
RunStep(m, step, c) ==
    IF step \in {"remove", "weakInsert", "input"} /\ m.buffer = NULL
    THEN [m EXCEPT !.thrown = "TypeError"]
    ELSE IF step = "remove" /\ ~IsInside(m.doc, c.range)
    THEN [m EXCEPT !.thrown = "ModelError"]
    ELSE IF step = "weakInsert" /\ ~IsInside(m.doc, Collapse(c.range.start))
    THEN [m EXCEPT !.thrown = "ModelError"]
    ELSE IF step = "remove"
    THEN [m EXCEPT !.doc = RemoveContent(m.doc, c.range),
                   !.selection = SelectionAfterRemove(m.selection, c.range),
                   !.ops = Append(@, Operation("remove", BufferBatch(m.changeBuffer),
                                               c.range.end - c.range.start))]
    ELSE IF step = "weakInsert"
    THEN [m EXCEPT !.doc = InsertContent(m.doc, c.range.start, c.text),
                   !.selection = SelectionAfterInsert(m.selection, c.range.start, Len(c.text)),
                   !.ops = Append(@, Operation("weakInsert", BufferBatch(m.changeBuffer),
                                               Len(c.text))),
                   !.written = Record(@, BufferBatch(m.changeBuffer), Len(c.text))]
    ELSE IF step = "collapseResult"
    THEN [m EXCEPT !.selection = Collapse(c.resultPosition),
                   !.collapses = @ + 1]
    ELSE IF step = "collapseShifted"
    THEN [m EXCEPT !.selection = Collapse(ShiftedStart(c.range, c.textInsertions)),
                   !.collapses = @ + 1]
    ELSE [m EXCEPT !.changeBuffer = BufferInput(m.changeBuffer, c.textInsertions),
                   !.inputs = Append(@, c.textInsertions)]

\* A call of the procedure that returns is logged; one that throws is not.
TracedStep(m, step, c) ==
    LET r == RunStep(m, step, c)
    IN  IF r.thrown = "none" THEN [r EXCEPT !.trace = Append(@, step)] ELSE r

RECURSIVE RunSteps(_, _, _)
RunSteps(m, steps, c) ==
    IF steps = <<>> \/ m.thrown # "none" THEN m
    ELSE RunSteps(TracedStep(m, Head(steps), c), Tail(steps), c)

\* doc.enqueueChanges( procedure ): enter the change scope, run the
\* procedure, leave the scope on every path out of it; observers see the
\* document as it is then.
EnqueueChanges(m, steps, c) ==
    LET r == RunSteps([m EXCEPT !.scopes = @ + 1, !.trace = Append(@, "enter")], steps, c)
    IN  [r EXCEPT !.commits = Append(@, r.doc), !.trace = Append(@, "exit")]

RECURSIVE RunScopes(_, _, _)
RunScopes(m, scopes, c) ==
    IF scopes = <<>> \/ m.thrown # "none" THEN m
    ELSE RunScopes(EnqueueChanges(m, Head(scopes), c), Tail(scopes), c)

\* _doExecute( options )
DoExecute(m, options) ==
    LET text == DefaultText(options.text)
        textInsertions == TextInsertions(text)
        range == TargetRange(options.range, m.selection)
        resultPosition == options.resultPosition
        c == [text |-> text, textInsertions |-> textInsertions,
              range |-> range, resultPosition |-> resultPosition]
    IN  RunScopes(m, DoExecuteScopes(range, resultPosition), c)

\* Variant that reads the default range when the procedure runs.
CapturedRangeReadLate(r, selectionAtCall, selectionAtRun) == TargetRange(r, selectionAtRun)

\* The range the procedure works on: the constant bound by _doExecute before
\* it calls doc.enqueueChanges, whatever the selection is when the procedure
\* runs.
CapturedRange(r, selectionAtCall, selectionAtRun) == TargetRange(r, selectionAtCall)

\* The document runs an earlier enqueued change, which collapses the
\* selection at `earlier`.
RunEarlierChange(m, earlier) == [m EXCEPT !.selection = Collapse(earlier)]

\* _doExecute( options ) called while an earlier enqueued change is pending:
\* the document runs that change first and only then the procedure of this
\* call.
DoExecuteBehind(m, options, earlier) ==
    LET text == DefaultText(options.text)
        textInsertions == TextInsertions(text)
        range == CapturedRange(options.range, m.selection, Collapse(earlier))
        resultPosition == options.resultPosition
        c == [text |-> text, textInsertions |-> textInsertions,
              range |-> range, resultPosition |-> resultPosition]
    IN  RunScopes(RunEarlierChange(m, earlier),
                  DoExecuteScopes(range, resultPosition), c)

\* Variant that forgets to clear the reference.
DestroyStepsWithoutClear == <<"super.destroy", "buffer.destroy">>

\* Variant that destroys the buffer before the base teardown.
DestroyStepsBufferFirst == <<"buffer.destroy", "super.destroy", "clear">>

\* destroy(), as the sequence of its statements.
DestroySteps == <<"super.destroy", "buffer.destroy", "clear">>

\* The log of completed statements with one more: a statement that a
\* repeated destroy() completes again keeps its place.
Logged(log, step) ==
    IF \E i \in DOMAIN log : log[i] = step THEN log ELSE Append(log, step)

RunDestroyStep(d, step) ==
    IF step = "super.destroy"
    THEN [d EXCEPT !.teardown = Logged(@, step)]
    ELSE IF step = "buffer.destroy"
    THEN IF d.buffer = NULL
         THEN [d EXCEPT !.thrown = "TypeError"]
         ELSE [d EXCEPT !.changeBuffer = BufferDestroy(@),
                        !.teardown = Logged(@, step)]
    ELSE [d EXCEPT !.buffer = NULL, !.teardown = Logged(@, step)]

RECURSIVE RunDestroy(_, _)
RunDestroy(d, steps) ==
    IF steps = <<>> \/ d.thrown # "none" THEN d
    ELSE RunDestroy(RunDestroyStep(d, Head(steps)), Tail(steps))

\* ------------------------------------------------------------ the machine
NoCall ==
    [kind |-> "none",
     options |-> [text |-> NoText, range |-> NoRange, resultPosition |-> NoPosition],
     text |-> <<>>, range |-> NoRange,
     preDoc |-> <<>>, preSelection |-> NoRange, preBuffer |-> NewChangeBuffer(0),
     preTotal |-> 0,
     ops |-> <<>>, inputs |-> <<>>, commits |-> <<>>, scopes |-> 0, collapses |-> 0,
     trace |-> <<>>, deferred |-> FALSE, runSelection |-> NoRange,
     thrown |-> "none"]

\* Some call gave a range or a result position, was deferred or threw, or
\* the selection was not collapsed at first.
NotTyping == [active |-> FALSE, start |-> 0, doc |-> <<>>, text |-> <<>>]

\* The run of calls without range and result position, one call longer.
Typed(ty, options, text, error) ==
    IF /\ ty.active
       /\ options.range = NoRange
       /\ options.resultPosition = NoPosition
       /\ error = "none"
    THEN [ty EXCEPT !.text = @ \o text]
    ELSE NotTyping

Init ==
    /\ doc \in InitialDocs
    /\ selection \in RangesOf(doc)
    /\ \E undoStepSize \in Limits :
          /\ buffer = Constructor(undoStepSize).buffer
          /\ changeBuffer = Constructor(undoStepSize).changeBuffer
    /\ teardown = <<>>
    /\ thrown = "none"
    /\ calls = 0
    /\ total = 0
    /\ written = [batch |-> FirstBatch, units |-> 0]
    /\ typing = IF IsCollapsed(selection)
                THEN [active |-> TRUE, start |-> selection.start, doc |-> doc, text |-> <<>>]
                ELSE NotTyping
    /\ last = NoCall

\* The units inserted by the calls completed so far, counted up to the
\* threshold: once the threshold is reached the sum stays there.
Cumulative(sum, n, limit) ==
    IF limit <= 0 THEN 0
    ELSE IF sum + n >= limit THEN limit
    ELSE sum + n

\* The length of the document once the range is replaced by the text.
LengthAfter(d, range, text) ==
    IF IsInside(d, range) THEN Len(d) - (range.end - range.start) + Len(text)
    ELSE Len(d)

\* last holds the record of one execute call, the observed one: its options,
\* the state it started from and what it did.  Calls before it go unrecorded
\* and no call follows it, so every call from every reachable state is
\* observed without carrying the records of earlier calls along.  A destroy()
\* call leaves its own record in place of it.
Execute ==
    /\ calls < MaxCalls
    /\ last.kind # "execute"
    /\ \E t \in Texts \cup {NoText}, r \in RangesOf(doc) \cup RangesOutside(doc) \cup {NoRange} :
         LET text == DefaultText(t)
             range == TargetRange(r, selection)
             newLen == LengthAfter(doc, range, text)
         IN  /\ newLen <= MaxDoc
             /\ \E x \in ResultPositions(newLen) \cup {NoPosition}, observed \in BOOLEAN :
                  LET options == [text |-> t, range |-> r, resultPosition |-> x]
                      m == [doc |-> doc, selection |-> selection, buffer |-> buffer,
                            changeBuffer |-> changeBuffer, written |-> written,
                            ops |-> <<>>, inputs |-> <<>>, commits |-> <<>>,
                            scopes |-> 0, collapses |-> 0, trace |-> <<>>,
                            thrown |-> "none"]
                  IN  \E r2 \in {DoExecute(m, options)} :
                      /\ doc' = r2.doc
                      /\ typing' = Typed(typing, options, text, r2.thrown)
                      /\ selection' = r2.selection
                      /\ changeBuffer' = r2.changeBuffer
                      /\ written' = r2.written
                      /\ thrown' = r2.thrown
                      /\ total' = Cumulative(total,
                                             IF r2.thrown = "none" THEN Len(text) ELSE 0,
                                             changeBuffer.limit)
                      /\ last' = IF observed
                                 THEN [kind |-> "execute", options |-> options,
                                       text |-> text, range |-> range,
                                       preDoc |-> doc, preSelection |-> selection,
                                       preBuffer |-> changeBuffer, preTotal |-> total,
                                       ops |-> r2.ops, inputs |-> r2.inputs,
                                       commits |-> r2.commits, scopes |-> r2.scopes,
                                       collapses |-> r2.collapses, trace |-> r2.trace,
                                       deferred |-> FALSE, runSelection |-> selection,
                                       thrown |-> r2.thrown]
                                 ELSE NoCall
    /\ calls' = calls + 1
    /\ UNCHANGED <<buffer, teardown>>

\* Where the earlier enqueued change leaves the selection: at either end of
\* the document.
MovedPositions(d) == {0, Len(d)}

\* An execute call that takes its range from the selection, made while an
\* earlier change is still enqueued, so that the document runs the procedure
\* of the call after that change has moved the selection.
ExecuteDeferred ==
    /\ calls < MaxCalls
    /\ last.kind # "execute"
    /\ \E t \in Texts \cup {NoText}, y \in MovedPositions(doc) :
         LET text == DefaultText(t)
             range == CapturedRange(NoRange, selection, Collapse(y))
             newLen == LengthAfter(doc, range, text)
         IN  /\ newLen <= MaxDoc
             /\ \E x \in ResultPositions(newLen) \cup {NoPosition}, observed \in BOOLEAN :
                  LET options == [text |-> t, range |-> NoRange, resultPosition |-> x]
                      m == [doc |-> doc, selection |-> selection, buffer |-> buffer,
                            changeBuffer |-> changeBuffer, written |-> written,
                            ops |-> <<>>, inputs |-> <<>>, commits |-> <<>>,
                            scopes |-> 0, collapses |-> 0, trace |-> <<>>,
                            thrown |-> "none"]
                  IN  \E r2 \in {DoExecuteBehind(m, options, y)} :
                      /\ doc' = r2.doc
                      /\ typing' = NotTyping
                      /\ selection' = r2.selection
                      /\ changeBuffer' = r2.changeBuffer
                      /\ written' = r2.written
                      /\ thrown' = r2.thrown
                      /\ total' = Cumulative(total,
                                             IF r2.thrown = "none" THEN Len(text) ELSE 0,
                                             changeBuffer.limit)
                      /\ last' = IF observed
                                 THEN [kind |-> "execute", options |-> options,
                                       text |-> text, range |-> range,
                                       preDoc |-> doc, preSelection |-> selection,
                                       preBuffer |-> changeBuffer, preTotal |-> total,
                                       ops |-> r2.ops, inputs |-> r2.inputs,
                                       commits |-> r2.commits, scopes |-> r2.scopes,
                                       collapses |-> r2.collapses, trace |-> r2.trace,
                                       deferred |-> TRUE, runSelection |-> Collapse(y),
                                       thrown |-> r2.thrown]
                                 ELSE NoCall
    /\ calls' = calls + 1
    /\ UNCHANGED <<buffer, teardown>>

\* destroy(), on a live command or on a destroyed one.
Destroy ==
    /\ LET d == RunDestroy([buffer |-> buffer, changeBuffer |-> changeBuffer,
                            teardown |-> teardown, thrown |-> "none"], DestroySteps)
       IN  /\ buffer' = d.buffer
           /\ changeBuffer' = d.changeBuffer
           /\ teardown' = d.teardown
           /\ thrown' = d.thrown
    /\ last' = [NoCall EXCEPT !.kind = IF teardown = <<>> THEN "destroy" ELSE "destroy again",
                               !.preDoc = doc,
                               !.preSelection = selection,
                               !.runSelection = selection,
                               !.preBuffer = changeBuffer,
                               !.thrown = thrown']
    /\ UNCHANGED <<doc, selection, calls, total, written, typing>>

Next == Execute \/ ExecuteDeferred \/ Destroy

Spec == Init /\ [][Next]_vars

\* The last operation was an execute on a command that had its buffer.
Executed == last.kind = "execute" /\ last.thrown = "none"

TypeOK ==
    /\ Len(doc) <= MaxDoc
    /\ selection.start <= selection.end
    /\ selection.end <= Len(doc)
    /\ buffer \in {TheBuffer, NULL}
    /\ calls \in 0..MaxCalls
\* ------------------------------------------------------------- properties
SameBatch(ops, b) == \A i \in DOMAIN ops : ops[i].batch = b

\* C1: with a threshold K >= 1, every call made while the cumulative inserted
\* length was still below K records all its mutations into the first batch,
\* and once the call that reaches or exceeds K is over, buffer.batch is a
\* different batch.
C1_CallsShareBatchUntilThreshold ==
    (Executed /\ changeBuffer.limit >= 1 /\ last.preTotal < changeBuffer.limit)
    => /\ BufferBatch(last.preBuffer) = FirstBatch
       /\ SameBatch(last.ops, FirstBatch)
       /\ (total >= changeBuffer.limit => BufferBatch(changeBuffer) # FirstBatch)

C1_Witness ==
    /\ Executed
    /\ changeBuffer.limit = 2
    /\ calls = 2
    /\ last.preTotal = 1
    /\ total >= changeBuffer.limit
    /\ Len(last.ops) = 2
    /\ SameBatch(last.ops, FirstBatch)
    /\ BufferBatch(changeBuffer) # FirstBatch

\* C2: the remove and the insert of one execute call are recorded into the
\* same batch, also when that call ends with a batch split.
C2_RemoveAndInsertShareBatch ==
    last.kind = "execute"
    => \A i, j \in DOMAIN last.ops : last.ops[i].batch = last.ops[j].batch

C2_Witness ==
    /\ Executed
    /\ Len(last.ops) = 2
    /\ last.ops[1].op = "remove"
    /\ last.ops[2].op = "weakInsert"
    /\ last.ops[1].batch = last.ops[2].batch
    /\ BufferBatch(changeBuffer) # last.ops[2].batch

\* C3: the text units recorded into one batch never exceed the split
\* threshold (stated for positive thresholds).
C3_BatchHoldsAtMostThreshold ==
    changeBuffer.limit >= 1 => written.units <= changeBuffer.limit

\* C4: replacing a non-collapsed range R by T leaves the document with R's
\* content gone and T at R's start, in exactly one change scope whose one
\* commit shows the final document.
C4_ReplaceInOneScope ==
    (Executed /\ ~IsCollapsed(last.range))
    => /\ doc = SubSeq(last.preDoc, 1, last.range.start) \o last.text
                \o SubSeq(last.preDoc, last.range.end + 1, Len(last.preDoc))
       /\ last.scopes = 1
       /\ last.commits = <<doc>>

C4_Witness ==
    /\ Executed
    /\ ~IsCollapsed(last.range)
    /\ Len(last.text) = 2
    /\ last.range.start = 1
    /\ Len(last.preDoc) = 2
    /\ Len(doc) = 3
    /\ last.commits = <<doc>>

\* C5: a collapsed range at P, text T and no result position leave the
\* selection collapsed at P + Len(T).
C5_SelectionShiftedByTextLength ==
    (Executed /\ IsCollapsed(last.range) /\ last.options.resultPosition = NoPosition)
    => selection = [start |-> last.range.start + Len(last.text),
                    end |-> last.range.start + Len(last.text)]

C5_Witness ==
    /\ Executed
    /\ IsCollapsed(last.range)
    /\ last.options.resultPosition = NoPosition
    /\ last.range.start = 1
    /\ Len(last.text) = 2
    /\ selection = [start |-> 3, end |-> 3]

\* C6: an explicit result position X leaves the selection collapsed at X,
\* by one collapse call, for a collapsed and a non-collapsed range alike.
C6_SelectionAtResultPosition ==
    (Executed /\ last.options.resultPosition # NoPosition)
    => /\ selection = [start |-> last.options.resultPosition,
                       end |-> last.options.resultPosition]
       /\ last.collapses = 1

C6_Witness ==
    /\ Executed
    /\ IsCollapsed(last.range)
    /\ last.options.resultPosition = 0
    /\ last.range.start + Len(last.text) = 3
    /\ selection = [start |-> 0, end |-> 0]

\* The case of C7: a collapsed range, empty or omitted text, no result position.
EmptyInput ==
    /\ Executed
    /\ IsCollapsed(last.range)
    /\ last.text = <<>>
    /\ last.options.resultPosition = NoPosition

EmptyInputIsNoOp ==
    /\ doc = last.preDoc
    /\ selection = [start |-> last.range.start, end |-> last.range.start]
    /\ changeBuffer.size = last.preBuffer.size
    /\ BufferBatch(changeBuffer) = BufferBatch(last.preBuffer)

\* C7 as stated: empty input at a collapsed range leaves document, selection,
\* unit counter and batch handle as they were, whatever the threshold.
C7_EmptyInputIsNoOp == EmptyInput => EmptyInputIsNoOp

\* C7 as amended: with a positive split threshold, empty input at a collapsed
\* range leaves document, selection, unit counter and batch handle as they were.
C7_EmptyInputIsNoOpPositiveThreshold ==
    (EmptyInput /\ changeBuffer.limit >= 1) => EmptyInputIsNoOp

C7_Witness ==
    /\ EmptyInput
    /\ changeBuffer.limit = 2
    /\ last.preBuffer.size = 1
    /\ last.options.text = NoText
    /\ last.options.range = NoRange
    /\ changeBuffer.size = 1
    /\ last.inputs = <<0>>

\* C8 as stated: 0 <= unitsSinceSplit <= splitThreshold in every state.
C8_CounterWithinThreshold ==
    0 <= changeBuffer.size /\ changeBuffer.size <= changeBuffer.limit

\* C8 as amended: the counter is never negative, and it is at most the
\* threshold whenever the threshold is not negative.
C8_CounterWithinNonNegativeThreshold ==
    /\ 0 <= changeBuffer.size
    /\ changeBuffer.limit >= 0 => changeBuffer.size <= changeBuffer.limit

C8_Witness ==
    /\ Executed
    /\ changeBuffer.limit = 2
    /\ last.inputs = <<1>>
    /\ changeBuffer.size = 1

\* C9: with a non-positive threshold an execute on a live command, for a
\* range inside the document, raises no error, records into the batch that
\* was current, and leaves a different batch current for the next execute.
C9_DegenerateThresholdSplitsEveryCall ==
    (/\ last.kind = "execute"
     /\ Buffer(buffer) # NULL
     /\ IsInside(last.preDoc, last.range)
     /\ changeBuffer.limit <= 0)
    => /\ last.thrown = "none"
       /\ SameBatch(last.ops, BufferBatch(last.preBuffer))
       /\ BufferBatch(changeBuffer) # BufferBatch(last.preBuffer)

C9_Witness ==
    /\ Executed
    /\ changeBuffer.limit <= 0
    /\ last.text = <<>>
    /\ calls = 2
    /\ BufferBatch(last.preBuffer) = FirstBatch + 1
    /\ BufferBatch(changeBuffer) = FirstBatch + 2

\* C10: until destroy() the accessor returns the buffer made by the
\* constructor; destroy() tears the base down, then destroys the buffer, then
\* clears the reference, and from then on the accessor returns null.
C10_DestroyReleasesBuffer ==
    IF teardown = <<>>
    THEN Buffer(buffer) = TheBuffer /\ ~changeBuffer.destroyed
    ELSE /\ Buffer(buffer) = NULL
         /\ changeBuffer.destroyed
         /\ Len(teardown) >= 3
         /\ SubSeq(teardown, 1, 3) = <<"super.destroy", "buffer.destroy", "clear">>

C10_Witness ==
    /\ Buffer(buffer) = NULL
    /\ teardown = <<"super.destroy", "buffer.destroy", "clear">>
    /\ calls >= 1
    /\ thrown = "none"
\* The positions of a step in a trace.
Positions(trace, step) == {i \in DOMAIN trace : trace[i] = step}

\* C11: a completed execute reports text.length to the buffer exactly once,
\* as the last call of the change scope (after remove, insert and collapse);
\* the size of the removed content is not part of the report.
C11_ReportsTextLengthOnceAtEnd ==
    Executed
    => /\ last.inputs = <<Len(last.text)>>
       /\ Cardinality(Positions(last.trace, "input")) = 1
       /\ last.trace[Len(last.trace)] = "exit"
       /\ last.trace[Len(last.trace) - 1] = "input"

C11_Witness ==
    /\ Executed
    /\ last.trace = <<"enter", "remove", "weakInsert", "collapseResult", "input", "exit">>
    /\ last.range.end - last.range.start = 2
    /\ Len(last.text) = 1
    /\ last.inputs = <<1>>

\* C13: every execute call, also one that throws, enters exactly one change
\* scope and leaves it; every remove, insert, collapse and input it makes lies
\* between the entry and the exit.
C13_EverythingInsideOneScope ==
    last.kind = "execute"
    => /\ last.scopes = 1
       /\ Len(last.trace) >= 2
       /\ Positions(last.trace, "enter") = {1}
       /\ Positions(last.trace, "exit") = {Len(last.trace)}
       /\ Len(last.ops) + last.collapses + Len(last.inputs) = Len(last.trace) - 2

C13_Witness ==
    /\ last.kind = "execute"
    /\ last.thrown = "ModelError"
    /\ last.trace = <<"enter", "exit">>
    /\ last.scopes = 1
C18_DeferredProcedureUsesCapturedRange ==
    (Executed /\ last.deferred)
    => /\ doc = SubSeq(last.preDoc, 1, last.preSelection.start) \o last.text
                \o SubSeq(last.preDoc, last.preSelection.end + 1, Len(last.preDoc))
       /\ last.ops[Len(last.ops)].op = "weakInsert"
       /\ Len(last.ops) = (IF IsCollapsed(last.preSelection) THEN 1 ELSE 2)

C18_Witness ==
    /\ Executed
    /\ last.deferred
    /\ last.options.range = NoRange
    /\ ~IsCollapsed(last.preSelection)
    /\ last.runSelection = [start |-> Len(last.preDoc), end |-> Len(last.preDoc)]
    /\ last.runSelection # last.preSelection
    /\ Len(last.text) = 2
    /\ doc = last.text
    /\ last.ops[1].op = "remove"
\* C16: when the document model rejects the remove or the insert, the error
\* leaves execute as it is and the command does nothing more: no collapse,
\* no buffer.input, and document, selection, unit counter and batch handle are
\* as the procedure found them.
C16_RejectedRangeStopsTheCommand ==
    (last.kind = "execute" /\ last.thrown = "ModelError")
    => /\ thrown = "ModelError"
       /\ last.collapses = 0
       /\ last.inputs = <<>>
       /\ last.ops = <<>>
       /\ doc = last.preDoc
       /\ selection = last.runSelection
       /\ changeBuffer.size = last.preBuffer.size
       /\ BufferBatch(changeBuffer) = BufferBatch(last.preBuffer)

C16_Witness ==
    /\ last.kind = "execute"
    /\ last.thrown = "ModelError"
    /\ thrown = "ModelError"
    /\ ~IsCollapsed(last.range)
    /\ last.range.end = Len(last.preDoc) + 1
    /\ Len(last.text) = 1
    /\ last.options.resultPosition = 0
    /\ last.preBuffer.size = 1
    /\ changeBuffer.size = 1
    /\ selection # [start |-> 0, end |-> 0]

\* The last operation was made on a destroyed command: an execute after a
\* destroy(), or a second destroy().
UsedAfterDestroy ==
    \/ last.kind = "execute" /\ teardown # <<>>
    \/ last.kind = "destroy again"

\* C17: an execute or a destroy() made after destroy() fails on the null
\* buffer reference, and leaves document, selection and buffer as they were:
\* no mutation, no collapse, no buffer.input.
C17_UseAfterDestroyFailsFirst ==
    UsedAfterDestroy
    => /\ last.thrown = "TypeError"
       /\ thrown = "TypeError"
       /\ doc = last.preDoc
       /\ selection = last.runSelection
       /\ changeBuffer = last.preBuffer
       /\ last.ops = <<>>
       /\ last.inputs = <<>>
       /\ last.collapses = 0

C17_Witness ==
    /\ last.kind = "execute"
    /\ Buffer(buffer) = NULL
    /\ last.thrown = "TypeError"
    /\ ~IsCollapsed(last.range)
    /\ Len(last.text) = 2
    /\ last.options.resultPosition = 0
    /\ selection # [start |-> 0, end |-> 0]
    /\ doc = last.preDoc
    /\ last.trace = <<"enter", "exit">>
\* C14: after a run of calls that gave no range and no result position,
\* begun with the selection collapsed at P, the texts of the calls stand in
\* the document in call order from P on, and the selection is collapsed
\* behind them.
C14_DefaultCallsTypeInOrder ==
    typing.active
    => /\ doc = SubSeq(typing.doc, 1, typing.start) \o typing.text
                \o SubSeq(typing.doc, typing.start + 1, Len(typing.doc))
       /\ selection = [start |-> typing.start + Len(typing.text),
                       end |-> typing.start + Len(typing.text)]

C14_Witness ==
    /\ typing.active
    /\ calls = 2
    /\ typing.start = 1
    /\ typing.text = <<"a", "b", "b">>
    /\ doc = typing.doc \o typing.text
    /\ selection = [start |-> 4, end |-> 4]

\* C15: the reads of buffer.batch made by one call, with no input between
\* them, all return the handle that was current before the call and leave
\* the counter alone; and an input that keeps the counter below the threshold
\* keeps that handle.
C15_BatchAccessorIsPureQuery ==
    Executed
    => /\ \A i \in DOMAIN last.ops : last.ops[i].batch = BufferBatch(last.preBuffer)
       /\ (last.preBuffer.limit >= 1
           /\ last.preBuffer.size + Len(last.text) < last.preBuffer.limit)
          => /\ BufferBatch(changeBuffer) = BufferBatch(last.preBuffer)
             /\ changeBuffer.size = last.preBuffer.size + Len(last.text)

C15_Witness ==
    /\ Executed
    /\ Len(last.ops) = 2
    /\ last.preBuffer.limit = 2
    /\ last.preBuffer.size = 0
    /\ Len(last.text) = 1
    /\ last.ops[1].batch = last.ops[2].batch
    /\ BufferBatch(changeBuffer) = last.ops[1].batch
    /\ changeBuffer.size = 1
====
